---------------------------- MODULE Spec2Model ----------------------------
(***************************************************************************)
(* A model of catch_phishing.py: the ruleset merge done at startup, the    *)
(* scoring function score_domain and the certstream callback.              *)
(*                                                                         *)
(* A Python str is a sequence of one-character strings, so that endswith,  *)
(* startswith, count, "in", lower, re.split and the Levenshtein distance   *)
(* are computed character by character as Python computes them.            *)
(***************************************************************************)
EXTENDS Integers, Sequences, FiniteSets, TLC

VARIABLES
    pc,          \* position of __main__: "start", "listening" or "crashed"
    base,        \* the document read from suspicious.yaml (line 236), kept for reference
    external,    \* the document read from external.yaml (line 239)
    suspicious,  \* the global `suspicious`, read by score_domain
    log,         \* rows written through suspicious_writer, in order
    console,     \* notices written with tqdm.tqdm.write, in order
    delivered,   \* history: the messages handed to callback so far
    scored,      \* history: <<domain, value>> for each return of score_domain in callback
    details,     \* args.details
    suffix_host, \* what the installed tld package answers for a host that is a public suffix
    domain,      \* argument of a direct call of score_domain
    result       \* what that call returned (or how it ended)

vars == <<pc, base, external, suspicious, log, console, delivered, scored, details,
          suffix_host, domain, result>>

-----------------------------------------------------------------------------
(* Characters and strings *)

LowerLetters ==
    {"a", "b", "c", "d", "e", "f", "g", "h", "i", "j", "k", "l", "m",
     "n", "o", "p", "q", "r", "s", "t", "u", "v", "w", "x", "y", "z"}

UpperLetters == {"A", "E", "L", "P", "Y"}

Digits == {"0", "1"}

\* The characters the regular expression class \w matches (line 87).
WordChars == LowerLetters \cup UpperLetters \cup Digits \cup {"_"}

\* str.lower on one character, for the upper-case letters the model uses.
LowerChar(c) ==
    CASE c = "A" -> "a"
      [] c = "E" -> "e"
      [] c = "L" -> "l"
      [] c = "P" -> "p"
      [] c = "Y" -> "y"
      [] OTHER -> c

\* str.lower (line 126).
Lower(s) == [i \in 1..Len(s) |-> LowerChar(s[i])]

\* str.endswith (lines 62, 67).
EndsWith(s, t) ==
    /\ Len(t) <= Len(s)
    /\ SubSeq(s, Len(s) - Len(t) + 1, Len(s)) = t

\* str.startswith (line 71).
StartsWith(s, t) ==
    /\ Len(t) <= Len(s)
    /\ SubSeq(s, 1, Len(t)) = t

\* The operator `in` on two strings (lines 95, 106, 129).
Contains(s, t) ==
    \E i \in 1..(Len(s) - Len(t) + 1) : SubSeq(s, i, i + Len(t) - 1) = t

\* str.count of a single character (lines 44, 106, 107, 110, 111).
Count(s, c) == Cardinality({i \in 1..Len(s) : s[i] = c})

\* '.'.join (line 77).
RECURSIVE Join(_, _)
Join(parts, sep) ==
    IF Len(parts) = 0 THEN <<>>
    ELSE IF Len(parts) = 1 THEN parts[1]
    ELSE parts[1] \o sep \o Join(Tail(parts), sep)

\* str.split on a one-character separator, as the suffix parser splits a host name.
RECURSIVE Split(_, _, _)
Split(s, c, cur) ==
    IF Len(s) = 0 THEN <<cur>>
    ELSE IF Head(s) = c THEN <<cur>> \o Split(Tail(s), c, <<>>)
    ELSE Split(Tail(s), c, Append(cur, Head(s)))

\* The one element of a singleton.  {e(x) : x \in {v}} evaluates v once and binds x
\* to its value: the model uses it where a value is computed once and read often.
Only(S) == CHOOSE x \in S : TRUE

\* The sum of f over the set S.
RECURSIVE Sum(_, _)
Sum(f, S) ==
    IF S = {} THEN 0
    ELSE Only({f[x] + Sum(f, S \ {x}) : x \in {CHOOSE y \in S : TRUE}})

s_wildcard == <<"*", ".">>
s_dot == <<".">>
s_xn == <<"x", "n", "-", "-">>
s_com == <<"c", "o", "m">>
s_net == <<"n", "e", "t">>
s_org == <<"o", "r", "g">>
s_info == <<"i", "n", "f", "o">>
s_email == <<"e", "m", "a", "i", "l">>
s_mail == <<"m", "a", "i", "l">>
s_cloud == <<"c", "l", "o", "u", "d">>
s_lets_encrypt == <<"L", "e", "t", "'", "s", " ", "E", "n", "c", "r", "y", "p", "t">>

-----------------------------------------------------------------------------
(* entropy (lines 42-46) *)

\* round(log2(k) * 100000) for k = 1..48: math.log(p) / math.log(2.0) in fixed point.
Log2Table ==
    <<0, 100000, 158496, 200000, 232193, 258496, 280735, 300000, 316993, 332193,
      345943, 358496, 370044, 380735, 390689, 400000, 408746, 416993, 424793, 432193,
      439232, 445943, 452356, 458496, 464386, 470044, 475489, 480735, 485798, 490689,
      495420, 500000, 504439, 508746, 512928, 516993, 520945, 524793, 528540, 532193,
      535755, 539232, 542626, 545943, 549185, 552356, 555459, 558496>>

\* Python 3 round() of the fraction num / den (den > 0, num >= 0): to nearest,
\* ties to the even neighbour.
RoundDiv(num, den) ==
    LET q == num \div den
        r == num % den
    IN  IF 2 * r < den THEN q
        ELSE IF 2 * r > den THEN q + 1
        ELSE IF q % 2 = 0 THEN q ELSE q + 1

\* The entropy with 1 / len(string) computed once, ahead of the list comprehension.
entropy10_hoisted(string) ==
    LET n == Len(string)
        chars == {string[i] : i \in 1..n}
        kLogK == [c \in chars |-> Count(string, c) * Log2Table[Count(string, c)]]
    IN  IF n = 0 THEN [err |-> TRUE, val |-> 0]
        ELSE [err |-> FALSE,
              val |-> Only({RoundDiv(10 * (n * Log2Table[n] - Sum(f, chars)), n * 100000) :
                            f \in {kLogK}})]

\* int(round(entropy(string) * 10)) (lines 44, 45, 82).  The list `prob` has one
\* entry count(c) / len(string) per distinct character c, so that the division by
\* len(string) is evaluated only when the string has a character: "error" is the
\* ZeroDivisionError of a division evaluated on a string of length 0.  With
\* p = k/n, -sum p*log2(p) = (n*log2(n) - sum k*log2(k)) / n.
entropy10(string) ==
    LET n == Len(string)
        chars == {string[i] : i \in 1..n}
        kLogK == [c \in chars |-> Count(string, c) * Log2Table[Count(string, c)]]
    IN  IF chars # {} /\ n = 0 THEN [err |-> TRUE, val |-> 0]
        ELSE IF chars = {} THEN [err |-> FALSE, val |-> 0]
        ELSE [err |-> FALSE,
              val |-> Only({RoundDiv(10 * (n * Log2Table[n] - Sum(f, chars)), n * 100000) :
                            f \in {kLogK}})]

-----------------------------------------------------------------------------
(* get_tld (line 76) *)

\* The public suffixes the model's suffix list holds, each a sequence of labels.
PublicSuffixes == {<<s_com>>, <<s_net>>, <<s_org>>, <<s_info>>}

\* get_tld(domain, as_object=True, fail_silently=True, fix_protocol=True): the host
\* name is lower-cased and split on dots, and the longest public suffix that ends
\* the label sequence is its tld; the label before it is the domain and the labels
\* before that one, joined by dots, the subdomain.  `found` is FALSE when get_tld
\* returns None (no host name, or no public suffix ends it).  For a host name that
\* is itself a public suffix the releases of the package differ: get_tld returns
\* None ("none"), or an object whose subdomain is empty and whose domain is the
\* suffix ("domain") or is empty ("empty").
SuffixHostAnswers == {"none", "domain", "empty"}

get_tld(d) ==
    LET host == Lower(d)
        parts == Split(host, ".", <<>>)
        n == Len(parts)
        lens == {k \in 1..n : SubSeq(parts, n - k + 1, n) \in PublicSuffixes}
        tldLen == CHOOSE k \in lens : \A j \in lens : j <= k
        none == [found |-> FALSE, subdomain |-> <<>>, domain |-> <<>>]
    IN  IF Len(host) = 0 \/ lens = {} THEN none
        ELSE IF tldLen = n
        THEN CASE suffix_host = "none" -> none
               [] suffix_host = "domain" ->
                    [found |-> TRUE, subdomain |-> <<>>, domain |-> host]
               [] OTHER -> [found |-> TRUE, subdomain |-> <<>>, domain |-> <<>>]
        ELSE [found |-> TRUE,
              subdomain |-> Join(SubSeq(parts, 1, n - tldLen - 1), s_dot),
              domain |-> parts[n - tldLen]]

-----------------------------------------------------------------------------
(* unconfuse (line 85): confusables.py *)

\* One entry of the confusables table: DIGIT ONE is folded to LATIN SMALL LETTER L.
unconfuseChar(c) == IF c = "1" THEN "l" ELSE c

unconfuse(s) == [i \in 1..Len(s) |-> unconfuseChar(s[i])]

-----------------------------------------------------------------------------
(* re.split(r"\W+", domain) (line 87) *)

\* The string is cut at every maximal run of non-word characters.  A run at the
\* very start leaves an empty first element, a run at the very end an empty last
\* element, and the empty string gives the one-element list [''].
RECURSIVE re_split_from(_, _, _, _)
re_split_from(s, i, cur, inSep) ==
    IF i > Len(s) THEN <<cur>>
    ELSE IF s[i] \in WordChars THEN re_split_from(s, i + 1, Append(cur, s[i]), FALSE)
    ELSE IF inSep THEN re_split_from(s, i + 1, cur, TRUE)
    ELSE <<cur>> \o re_split_from(s, i + 1, <<>>, TRUE)

re_split(s) == re_split_from(s, 1, <<>>, FALSE)

-----------------------------------------------------------------------------
(* Levenshtein.distance (line 102) *)

Min2(a, b) == IF a <= b THEN a ELSE b

\* One row of the dynamic-programming table: the distances from the first i
\* characters of a to every prefix of b, from the row before it.
RECURSIVE LevRow(_, _, _, _, _)
LevRow(prev, ai, b, j, acc) ==
    IF j > Len(b) THEN acc
    ELSE Only({LevRow(prev, ai, b, j + 1, next) :
               next \in {Append(acc, Min2(prev[j] + (IF ai = b[j] THEN 0 ELSE 1),
                                          Min2(prev[j + 1] + 1, acc[j] + 1)))}})

RECURSIVE LevRows(_, _, _, _)
LevRows(a, b, i, prev) ==
    IF i > Len(a) THEN prev[Len(b) + 1]
    ELSE Only({LevRows(a, b, i + 1, row) :
               row \in {LevRow(prev, a[i], b, 1, <<prev[1] + 1>>)}})

distance(a, b) ==
    Only({LevRows(x, y, 1, row0) :
          x \in {a}, y \in {b}, row0 \in {[j \in 1..(Len(b) + 1) |-> j - 1]}})

-----------------------------------------------------------------------------
(* The YAML documents *)

\* A key of a document is absent ("missing"), present with the value null
\* ("null"), or present with a value ("bool", "list", "map").
Missing(v) == [tag |-> "missing", val |-> v]
Null(v) == [tag |-> "null", val |-> v]
Bool(b) == [tag |-> "bool", val |-> b]
List(l) == [tag |-> "list", val |-> l]
Map(m) == [tag |-> "map", val |-> m]

EmptyMap == [k \in {} |-> 0]

\* A merge that keeps the value `m` already has for a key of both.
update_keep(m, other) ==
    [k \in (DOMAIN m) \cup (DOMAIN other) |-> IF k \in DOMAIN m THEN m[k] ELSE other[k]]

\* dict.update (lines 245, 248): every key of `other` is set in `m`.
update(m, other) ==
    [k \in (DOMAIN m) \cup (DOMAIN other) |-> IF k \in DOMAIN other THEN other[k] ELSE m[k]]

-----------------------------------------------------------------------------
(* score_domain (lines 48-113) *)

TldIncrement == 20
FakeTldBonus == 10
StrongKeyword == 70
FuzzyBonus == 70
HyphenThreshold == 4
HyphenWeight == 3
DotThreshold == 3
DotWeight == 3

\* The whitelist as a list of whole names, not of suffixes.
whitelisted_exact(d) ==
    \E i \in 1..Len(suspicious.whitelist.val) : d = suspicious.whitelist.val[i]

\* Lines 61-64: the loop over the whitelist returns as soon as an entry ends the domain.
whitelisted(d) ==
    \E i \in 1..Len(suspicious.whitelist.val) : EndsWith(d, suspicious.whitelist.val[i])

\* The loop over tlds left at the first entry that ends the domain.
tld_score_first(d) ==
    IF \E t \in DOMAIN suspicious.tlds.val : EndsWith(d, t) THEN TldIncrement ELSE 0

\* Lines 66-68: every key of tlds that ends the domain adds 20.
tld_score(d) ==
    TldIncrement * Cardinality({t \in DOMAIN suspicious.tlds.val : EndsWith(d, t)})

\* Lines 71-72.
strip_wildcard(d) == IF StartsWith(d, s_wildcard) THEN SubSeq(d, 3, Len(d)) ELSE d

\* Lines 75-79: when get_tld returns None, res.subdomain raises, the exception is
\* swallowed and the domain is left as it was.
remove_tld(d) ==
    LET res == get_tld(d)
    IN  IF res.found THEN Join(<<res.subdomain, res.domain>>, s_dot) ELSE d

\* Lines 90-91: words_in_domain[0] is an IndexError on an empty list.
fake_tld(words) ==
    IF Len(words) = 0 THEN [err |-> TRUE, val |-> 0]
    ELSE [err |-> FALSE, val |-> IF words[1] \in {s_com, s_net, s_org} THEN FakeTldBonus ELSE 0]

\* Lines 94-96.
keyword_score(d) ==
    LET kw == suspicious.keywords.val
        hit == {word \in DOMAIN kw : Contains(d, word)}
    IN  Sum(kw, hit)

\* Lines 99-103: one bonus for every strong key and every element of
\* words_in_domain that is not a generic word and is at distance 1 from the key.
fuzzy_score(words) ==
    LET kw == suspicious.keywords.val
        keys == {k \in DOMAIN kw : kw[k] >= StrongKeyword}
        idx == {i \in 1..Len(words) : words[i] \notin {s_email, s_mail, s_cloud}}
    IN  FuzzyBonus * Cardinality({p \in keys \X idx : distance(words[p[2]], p[1]) = 1})

\* Lines 106-107.
hyphen_score(d) ==
    IF ~Contains(d, s_xn) /\ Count(d, "-") >= HyphenThreshold
    THEN Count(d, "-") * HyphenWeight ELSE 0

\* Lines 110-111.
dot_score(d) ==
    IF Count(d, ".") >= DotThreshold THEN Count(d, ".") * DotWeight ELSE 0

\* What a call leaves when an exception ends it.
Raised == [err |-> TRUE, score |-> 0, whitelisted |-> FALSE, tld |-> 0, working |-> <<>>,
           words |-> <<>>, entropy |-> 0, fake |-> 0, keyword |-> 0, fuzzy |-> 0,
           hyphen |-> 0, dots |-> 0]

\* The call score_domain(d): `score` is the value returned, the other fields are the
\* increment each rule made to it, the domain after line 85 and words_in_domain.
\* A key of `suspicious` that is absent or null raises where the code first reads it.
rules(d, working, words, ent, fake) ==
    IF ent.err \/ fake.err \/ suspicious.keywords.tag # "map" THEN Raised
    ELSE Only({[r EXCEPT !.score = r.tld + r.entropy + r.fake + r.keyword
                                   + r.fuzzy + r.hyphen + r.dots] :
               r \in {[err |-> FALSE, score |-> 0, whitelisted |-> FALSE,
                       tld |-> tld_score(d), working |-> working, words |-> words,
                       entropy |-> ent.val, fake |-> fake.val,
                       keyword |-> keyword_score(working),
                       fuzzy |-> fuzzy_score(words),
                       hyphen |-> hyphen_score(working), dots |-> dot_score(working)]}})

score_domain(d) ==
    IF suspicious.whitelist.tag # "list" THEN Raised
    ELSE IF whitelisted(d) THEN [Raised EXCEPT !.err = FALSE, !.whitelisted = TRUE]
    ELSE IF suspicious.tlds.tag # "map" THEN Raised
    ELSE Only({Only({Only({rules(d0, working, words, entropy10(stripped), fake_tld(words)) :
                           words \in {re_split(working)}}) :
                     working \in {unconfuse(stripped)}}) :
               d0 \in {d}, stripped \in {remove_tld(strip_wildcard(d))}})

-----------------------------------------------------------------------------
(* The ruleset merge of __main__ (lines 235-248) *)

\* Lines 241-248 on the base document b and the override document e.  Reading a
\* key a document does not have raises KeyError, and update() on a base map that
\* is not a map raises too: `err` is that exception, which ends the process.
merge(b, e) ==
    IF e.override.tag = "missing" THEN [err |-> TRUE, doc |-> b]
    ELSE IF e.override = Bool(TRUE) THEN [err |-> FALSE, doc |-> e]
    ELSE IF e.keywords.tag = "missing" THEN [err |-> TRUE, doc |-> b]
    ELSE IF e.keywords.tag # "null" /\ b.keywords.tag # "map" THEN [err |-> TRUE, doc |-> b]
    ELSE LET b1 == IF e.keywords.tag = "null" THEN b
                   ELSE [b EXCEPT !.keywords = Map(update(b.keywords.val, e.keywords.val))]
         IN  IF e.tlds.tag = "missing" THEN [err |-> TRUE, doc |-> b1]
             ELSE IF e.tlds.tag # "null" /\ b.tlds.tag # "map" THEN [err |-> TRUE, doc |-> b1]
             ELSE IF e.tlds.tag = "null" THEN [err |-> FALSE, doc |-> b1]
             ELSE [err |-> FALSE,
                   doc |-> [b1 EXCEPT !.tlds = Map(update(b1.tlds.val, e.tlds.val))]]

\* The header row (lines 259-275).
Header == [kind |-> "header", domain |-> <<>>, detailed |-> TRUE, score |-> 0,
           all_domains |-> <<>>]

\* __main__ from line 235 to line 277: the merge, then the log is opened and its
\* header written, then the process listens for events.
main ==
    /\ pc = "start"
    /\ LET m == merge(suspicious, external)
       IN  /\ suspicious' = m.doc
           /\ IF m.err
              THEN pc' = "crashed" /\ log' = log
              ELSE pc' = "listening" /\ log' = Append(log, Header)
    /\ UNCHANGED <<base, external, console, delivered, scored, details, suffix_host, domain, result>>

-----------------------------------------------------------------------------
(* callback (lines 116-174) *)

FreeCaBonus == 10
SuspiciousBold == 100
SuspiciousLevel == 90
LikelyLevel == 80
PotentialLevel == 65
LogThreshold == 75

\* Line 129: the issuer is chain[0].subject.aggregated.
free_ca(message) == Contains(message.issuer, s_lets_encrypt)

\* Lines 132-147: the notice written for a score, if any.
notice(score) ==
    IF score >= SuspiciousBold THEN "suspicious_bold"
    ELSE IF score >= SuspiciousLevel THEN "suspicious"
    ELSE IF score >= LikelyLevel THEN "likely"
    ELSE IF score >= PotentialLevel THEN "potential"
    ELSE "none"

\* The log written from the lowest console level on.
should_log_potential(score) == score >= PotentialLevel

\* Line 149.
should_log(score) == score >= LogThreshold

\* Lines 151-173: the row written for a domain; without --details it holds the
\* domain only.
row(d, score, message) ==
    IF details
    THEN [kind |-> "row", domain |-> d, detailed |-> TRUE, score |-> score,
          all_domains |-> Join(message.all_domains, <<"|">>)]
    ELSE [kind |-> "row", domain |-> d, detailed |-> FALSE, score |-> 0,
          all_domains |-> <<>>]

\* Lines 124-174: the loop over all_domains from index i on; `out` holds the log,
\* the console and the history of score_domain's returns so far.  An exception in
\* score_domain leaves the loop and the callback.
for_domain(d, r, score, n, message, out) ==
    [log |-> IF should_log(score)
             THEN Append(out.log, row(d, score, message)) ELSE out.log,
     console |-> IF n # "none"
                 THEN Append(out.console, [level |-> n, domain |-> d, score |-> score])
                 ELSE out.console,
     scored |-> out.scored \cup {[domain |-> Lower(d), score |-> r.score]}]

RECURSIVE for_domains(_, _, _)
for_domains(message, i, out) ==
    IF i > Len(message.all_domains) THEN out
    ELSE Only({IF r.err THEN out
               ELSE Only({for_domains(message, i + 1, next) :
                          next \in {for_domain(d, r,
                                      r.score + (IF free_ca(message) THEN FreeCaBonus ELSE 0),
                                      notice(r.score + (IF free_ca(message) THEN FreeCaBonus ELSE 0)),
                                      message, out)}}) :
               d \in {message.all_domains[i]},
               r \in {score_domain(Lower(message.all_domains[i]))}})

MaxEvents == 2

\* A callback that remembers the domains it has seen, so as not to report them again.
callback_remembering(message) ==
    /\ pc = "listening"
    /\ Len(delivered) < MaxEvents
    /\ delivered' = Append(delivered, message)
    /\ \E out \in {IF message.message_type = "certificate_update"
                   THEN for_domains(message, 1,
                                    [log |-> log, console |-> console, scored |-> scored])
                   ELSE [log |-> log, console |-> console, scored |-> scored]} :
           /\ log' = out.log
           /\ console' = out.console
           /\ scored' = out.scored
    /\ suspicious' = [suspicious EXCEPT !.whitelist.val =
                        @ \o [i \in 1..Len(message.all_domains) |->
                                Lower(message.all_domains[i])]]
    /\ UNCHANGED <<pc, base, external, details, suffix_host, domain, result>>

\* callback(message, context), for one message of the feed.
callback(message) ==
    /\ pc = "listening"
    /\ Len(delivered) < MaxEvents
    /\ delivered' = Append(delivered, message)
    /\ \E out \in {IF message.message_type = "certificate_update"
                   THEN for_domains(message, 1,
                                    [log |-> log, console |-> console, scored |-> scored])
                   ELSE [log |-> log, console |-> console, scored |-> scored]} :
           /\ log' = out.log
           /\ console' = out.console
           /\ scored' = out.scored
    /\ UNCHANGED <<pc, base, external, suspicious, details, suffix_host, domain, result>>

-----------------------------------------------------------------------------
(* Inputs *)

s_pay == <<"p", "a", "y">>
s_pey == <<"p", "e", "y">>
s_a == <<"a">>
s_hyphen == <<"-">>
s_login == <<"l", "o", "g", "i", "n">>
s_paypal == <<"p", "a", "y", "p", "a", "l">>
s_dot_com == <<".", "c", "o", "m">>
s_dot_info == <<".", "i", "n", "f", "o">>
s_y_com == <<"y", ".", "c", "o", "m">>
s_mail_com == <<"m", "a", "i", "l", ".", "c", "o", "m">>
s_hyphen_a == <<"-", "a">>
s_Pay_com == <<"P", "a", "y", ".", "c", "o", "m">>
s_pay_mail_com == <<"p", "a", "y", ".", "m", "a", "i", "l", ".", "c", "o", "m">>
s_login_info == <<"l", "o", "g", "i", "n", ".", "i", "n", "f", "o">>
s_a_com == <<"a", ".", "c", "o", "m">>
s_a_login_com == <<"a", "-", "l", "o", "g", "i", "n", ".", "c", "o", "m">>
s_issuer_lets_encrypt == <<"C", "=", "U", "S", ",", " ", "O", "=", "L", "e", "t", "'", "s", " ", "E", "n", "c", "r", "y", "p", "t", ",", " ", "C", "N", "=", "R", "3">>
s_issuer_other == <<"C", "=", "U", "S", ",", " ", "O", "=", "L", "e", "t", "s", " ", "E", "n", "c", "r", "y", "p", "t", " ", "L", "t", "d", ",", " ", "C", "N", "=", "E", "1">>
s_ex_paypol == <<"w", "w", "w", ".", "p", "a", "y", "p", "o", "l", "-", "s", "e", "c", "u", "r", "i", "t", "y", ".", "c", "o", "m">>
s_ex_nested == <<"p", "a", "y", "p", "a", "l", ".", "c", "o", "m", ".", "a", "t", "t", "a", "c", "k", "e", "r", "-", "s", "e", "c", "u", "r", "i", "t", "y", "-", "u", "p", "d", "a", "t", "e", ".", "i", "n", "f", "o">>
s_ex_secure == <<"s", "e", "c", "u", "r", "e", "-", "p", "a", "y", "p", "a", "l", "-", "l", "o", "g", "i", "n", "-", "u", "p", "d", "a", "t", "e", ".", "c", "o", "m">>
s_ex_fake_com == <<"*", ".", "c", "o", "m", "-", "a", "c", "c", "o", "u", "n", "t", "-", "m", "a", "n", "a", "g", "e", "m", "e", "n", "t", ".", "i", "n", "f", "o">>
s_ex_deep == <<"w", "w", "w", ".", "p", "a", "y", "p", "a", "l", ".", "c", "o", "m", ".", "s", "e", "c", "u", "r", "i", "t", "y", ".", "a", "c", "c", "o", "u", "n", "t", "u", "p", "d", "a", "t", "e", ".", "i", "n", "f", "o">>
s_ex_puny == <<"x", "n", "-", "-", "p", "a", "y", "-", "a", "-", "b", "-", "c", "-", "d", ".", "c", "o", "m">>
s_ex_confusable == <<"p", "a", "y", "p", "a", "1", ".", "c", "o", "m">>
s_ex_upper == <<"P", "A", "Y", "P", "A", "L", ".", "c", "o", "m">>
s_ex_wild_mail == <<"*", ".", "p", "a", "y", ".", "m", "a", "i", "l", ".", "c", "o", "m">>
s_ex_hyphens == <<"-", ".", "-", ".", "-", ".", "-">>
s_ex_noword == <<"*", ".">>
s_ex_email == <<"e", "m", "a", "i", "l", ".", "m", "a", "i", "l", ".", "c", "l", "o", "u", "d", ".", "c", "o", "m">>

NoMap == Missing(EmptyMap)

Doc(o, w, t, k) == [override |-> o, whitelist |-> w, tlds |-> t, keywords |-> k]

Keywords0 == EmptyMap
Keywords1 == (s_pay :> 70) @@ (s_mail :> 80) @@ (s_login :> 25) @@ (s_paypal :> 70)
Keywords2 == (s_a :> 70) @@ (s_pay :> 60)
KeywordsStream == (s_pay :> 70) @@ (s_login :> 25)
KeywordsExtra == (s_login :> 35) @@ (s_a :> 5)

Tlds0 == EmptyMap
Tlds1 == (s_dot_com :> 20) @@ (s_com :> 5) @@ (s_y_com :> 30) @@ (s_dot_info :> 20)
TldsStream == (s_dot_info :> 20)
TldsExtra == (s_dot_info :> 30) @@ (s_dot_com :> 20)

Whitelist0 == <<>>
Whitelist1 == <<s_mail_com, s_hyphen_a>>
WhitelistUpper == <<s_Pay_com>>

\* The effective rulesets a direct call of score_domain is made under.
ScoreRulesets ==
    {Doc(Bool(FALSE), List(w), Map(t), Map(k)) :
        w \in {Whitelist0, Whitelist1}, t \in {Tlds0, Tlds1},
        k \in {Keywords0, Keywords1, Keywords2}}

MaxPieces == 3

Pieces == {s_pay, s_pey, s_mail, s_com, s_a, s_dot, s_hyphen}

RECURSIVE PieceStrings(_)
PieceStrings(n) ==
    IF n = 0 THEN {<<>>}
    ELSE LET S == PieceStrings(n - 1) IN S \cup {s \o p : s \in S, p \in Pieces}

Examples ==
    {s_ex_paypol, s_ex_nested, s_ex_secure, s_ex_fake_com, s_ex_deep, s_ex_puny,
     s_ex_confusable, s_ex_upper, s_ex_wild_mail, s_ex_hyphens, s_ex_noword,
     s_ex_email, s_pay_mail_com, s_com, s_dot_com}

\* The strings score_domain is called on directly.
ScoreInputs == PieceStrings(MaxPieces) \cup Examples

\* The documents of suspicious.yaml.
BaseDocs ==
    {Doc(Bool(FALSE), List(Whitelist1), Map(t), Map(k)) :
        t \in {Tlds0, TldsStream}, k \in {Keywords0, KeywordsStream}}

\* The documents of external.yaml: each of the three keys the merge reads may be
\* absent or null.
ExternalDocs ==
    {Doc(o, List(w), t, k) :
        o \in {Missing(FALSE), Null(FALSE), Bool(FALSE), Bool(TRUE)},
        w \in {Whitelist0, WhitelistUpper},
        t \in {NoMap, Null(EmptyMap), Map(TldsExtra)},
        k \in {NoMap, Null(EmptyMap), Map(Keywords0), Map(KeywordsExtra)}}

\* The pairs (suspicious.yaml, external.yaml) the stream is run under.
StreamBase == Doc(Bool(FALSE), List(<<s_mail_com>>), Map(TldsStream), Map(KeywordsStream))

StreamRulesets ==
    {<<StreamBase, Doc(Bool(FALSE), List(Whitelist0), Null(EmptyMap), Map(KeywordsExtra))>>,
     <<StreamBase, Doc(Bool(FALSE), List(Whitelist0), Map(TldsExtra), Null(EmptyMap))>>,
     <<StreamBase, Doc(Bool(TRUE), List(WhitelistUpper), Map(Tlds0), Map(KeywordsStream))>>,
     <<StreamBase, Doc(Missing(FALSE), List(Whitelist0), Map(TldsExtra), Map(KeywordsExtra))>>}

\* The all_domains lists of the certificates of the feed.
Certificates ==
    {<<s_Pay_com>>, <<s_login_info, s_a_com>>, <<s_pay_mail_com, s_Pay_com>>,
     <<s_a_login_com, s_login_info>>}

Messages ==
    {[message_type |-> "heartbeat", all_domains |-> <<>>, issuer |-> <<>>]}
    \cup {[message_type |-> "certificate_update", all_domains |-> c, issuer |-> i] :
            c \in Certificates, i \in {s_issuer_lets_encrypt, s_issuer_other}}

NotCalled == [called |-> FALSE, r |-> Raised]

-----------------------------------------------------------------------------
(* The specifications *)

\* The process from its start: the merge, then the feed.
Init ==
    /\ pc = "start"
    /\ \E rs \in StreamRulesets : base = rs[1] /\ suspicious = rs[1] /\ external = rs[2]
    /\ details \in BOOLEAN
    /\ suffix_host \in SuffixHostAnswers
    /\ log = <<>> /\ console = <<>> /\ delivered = <<>> /\ scored = {}
    /\ domain = <<>> /\ result = NotCalled

Next ==
    \/ main
    \/ \E message \in Messages : callback(message)

Spec == Init /\ [][Next]_vars

\* The merge alone, over every pair of documents.
InitMerge ==
    /\ pc = "start"
    /\ base \in BaseDocs /\ suspicious = base /\ external \in ExternalDocs
    /\ details = FALSE
    /\ suffix_host \in SuffixHostAnswers
    /\ log = <<>> /\ console = <<>> /\ delivered = <<>> /\ scored = {}
    /\ domain = <<>> /\ result = NotCalled

NextMerge == main

SpecMerge == InitMerge /\ [][NextMerge]_vars

\* Direct calls of score_domain under a loaded ruleset.
call_score_domain(d) ==
    /\ pc = "listening"
    /\ ~result.called
    /\ domain' = d
    /\ result' = [called |-> TRUE, r |-> score_domain(d)]
    /\ UNCHANGED <<pc, base, external, suspicious, log, console, delivered, scored, details,
                   suffix_host>>

InitScore ==
    /\ pc = "listening"
    /\ suspicious \in ScoreRulesets /\ base = suspicious
    /\ external = Doc(Bool(TRUE), suspicious.whitelist, suspicious.tlds, suspicious.keywords)
    /\ details = FALSE
    /\ suffix_host \in SuffixHostAnswers
    /\ log = <<Header>> /\ console = <<>> /\ delivered = <<>> /\ scored = {}
    /\ domain = <<>> /\ result = NotCalled

NextScore == \E d \in ScoreInputs : call_score_domain(d)

SpecScore == InitScore /\ [][NextScore]_vars

-----------------------------------------------------------------------------
(* Properties of score_domain, checked under SpecScore *)

\* The entries of the whitelist that end the string d.
WhitelistHits(d) ==
    {i \in 1..Len(suspicious.whitelist.val) : EndsWith(d, suspicious.whitelist.val[i])}

\* The entries of tlds that end the string d.
TldHits(d) == {t \in DOMAIN suspicious.tlds.val : EndsWith(d, t)}

\* The word tokens of s: its maximal runs of word characters, as <<first, last>>.
Runs(s) ==
    {p \in (1..Len(s)) \X (1..Len(s)) :
        /\ p[1] <= p[2]
        /\ \A k \in p[1]..p[2] : s[k] \in WordChars
        /\ (p[1] = 1 \/ s[p[1] - 1] \notin WordChars)
        /\ (p[2] = Len(s) \/ s[p[2] + 1] \notin WordChars)}

Token(s, p) == SubSeq(s, p[1], p[2])

\* C1: whitelist absorption.  A call on a string that ends with an entry of the
\* whitelist returns 0, and no rule has added anything to that value.
C1_WhitelistAbsorption ==
    (result.called /\ WhitelistHits(domain) # {}) =>
        /\ ~result.r.err
        /\ result.r.score = 0
        /\ result.r.tld = 0 /\ result.r.entropy = 0 /\ result.r.fake = 0
        /\ result.r.keyword = 0 /\ result.r.fuzzy = 0
        /\ result.r.hyphen = 0 /\ result.r.dots = 0

\* A whitelisted string that holds keywords and ends with configured tlds was scored.
C1_Witness ==
    /\ result.called
    /\ domain = s_pay_mail_com
    /\ WhitelistHits(domain) # {}
    /\ TldHits(domain) # {}
    /\ s_pay \in DOMAIN suspicious.keywords.val

\* C3 as stated: the TLD contribution is the sum of the weights configured for
\* the entries of tlds that end the raw domain.
C3_TldConfiguredWeight ==
    (result.called /\ ~result.r.err /\ ~result.r.whitelisted) =>
        result.r.tld = Sum(suspicious.tlds.val, TldHits(domain))

\* C3 amended: every entry of tlds that ends the raw domain adds 20, whatever
\* weight is configured for it, and all matching entries add.
C3_TldFlatIncrement ==
    (result.called /\ ~result.r.err /\ ~result.r.whitelisted) =>
        result.r.tld = 20 * Cardinality(TldHits(domain))

\* Three entries with the weights 20, 5 and 30 end the scored string.
C3_Witness ==
    /\ result.called /\ ~result.r.whitelisted
    /\ Cardinality(TldHits(domain)) = 3
    /\ Sum(suspicious.tlds.val, TldHits(domain)) = 55
    /\ result.r.tld = 60

\* Every rule after the whitelist and TLD rules, on the working domain w that was
\* derived from the string u by confusable folding.
LaterRulesOn(r, u, w) ==
    /\ r.working = w
    /\ r.words = re_split(w)
    /\ r.entropy = entropy10(u).val
    /\ r.fake = fake_tld(re_split(w)).val
    /\ r.keyword = keyword_score(w)
    /\ r.fuzzy = fuzzy_score(re_split(w))
    /\ r.hyphen = hyphen_score(w)
    /\ r.dots = dot_score(w)
    /\ r.score = r.tld + r.entropy + r.fake + r.keyword + r.fuzzy + r.hyphen + r.dots

\* C4: under a well-formed ruleset no call ends in an exception and the value
\* returned is a non-negative integer; when the suffix parser finds nothing, the
\* working domain is the unparsed string after the wildcard strip and every later
\* rule is applied to it.
C4_NeverRaises ==
    result.called =>
        /\ ~result.r.err
        /\ result.r.score \in Nat
        /\ (~result.r.whitelisted /\ ~get_tld(strip_wildcard(domain)).found) =>
              LaterRulesOn(result.r, strip_wildcard(domain),
                           unconfuse(strip_wildcard(domain)))

\* The string "*." was scored: after the wildcard strip it is empty, the suffix
\* parser finds nothing and the entropy is taken of the empty string.
C4_Witness ==
    /\ result.called
    /\ domain = s_ex_noword
    /\ ~result.r.whitelisted
    /\ ~get_tld(strip_wildcard(domain)).found
    /\ result.r.working = <<>>

\* The pairs (key, token) of C8: a key of weight >= 70 and a word token of the
\* working domain, not one of the generic words, at distance 1 from the key.
FuzzyPairs(w) ==
    {q \in {k \in DOMAIN suspicious.keywords.val : suspicious.keywords.val[k] >= 70}
           \X Runs(w) :
        /\ Token(w, q[2]) \notin {s_email, s_mail, s_cloud}
        /\ distance(Token(w, q[2]), q[1]) = 1}

\* C8: the fuzzy contribution is 70 times the number of pairs of a strong key and
\* a word token of the working domain (a maximal run of word characters, not a
\* generic word) at Levenshtein distance exactly 1.
C8_FuzzyBonus ==
    (result.called /\ ~result.r.err /\ ~result.r.whitelisted) =>
        result.r.fuzzy = 70 * Cardinality(FuzzyPairs(result.r.working))

\* The first of the non-empty tokens of s is one of "com", "net", "org".
FirstTokenIsTld(s) ==
    \E p \in Runs(s) :
        /\ \A q \in Runs(s) : p[1] <= q[1]
        /\ Token(s, p) \in {s_com, s_net, s_org}

\* C9: 10 is added exactly when the first non-empty token of the working domain
\* is "com", "net" or "org", also when the working domain begins with a separator.
C9_FakeTldFirstToken ==
    (result.called /\ ~result.r.err /\ ~result.r.whitelisted) =>
        (result.r.fake = 10) = FirstTokenIsTld(result.r.working)

-----------------------------------------------------------------------------
(* Properties of the ruleset merge, checked under SpecMerge *)

\* The key-wise union of the maps b and e in which e's value is kept for a key of both.
IsUnion(m, b, e) ==
    /\ DOMAIN m = (DOMAIN b) \cup (DOMAIN e)
    /\ \A k \in DOMAIN m : m[k] = IF k \in DOMAIN e THEN e[k] ELSE b[k]

\* The part of the effective ruleset that comes from the map `part` of the base
\* and of the override document.
MergedPart(eff, b, e) ==
    IF e.tag = "map" THEN eff.tag = "map" /\ IsUnion(eff.val, b.val, e.val) ELSE eff = b

\* C5: once startup has completed, the effective ruleset is the override
\* document when its flag is true; otherwise keywords and tlds are the key-wise
\* unions in which the override's value wins (a null override map leaves the base
\* map as it is), and the whitelist is the base whitelist.
C5_Merge ==
    pc = "listening" =>
        IF external.override = Bool(TRUE) THEN suspicious = external
        ELSE /\ suspicious.whitelist = base.whitelist
             /\ MergedPart(suspicious.keywords, base.keywords, external.keywords)
             /\ MergedPart(suspicious.tlds, base.tlds, external.tlds)

\* A merge in which both documents weigh the keyword "login" and the override's
\* whitelist differs from the base's.
C5_Witness ==
    /\ pc = "listening"
    /\ external.override = Bool(FALSE)
    /\ external.keywords = Map(KeywordsExtra)
    /\ base.keywords = Map(KeywordsStream)
    /\ external.tlds.tag = "null"
    /\ external.whitelist # base.whitelist
    /\ suspicious.keywords.val[s_login] = 35

\* The keys the merge expects of the override document that it does not have.
MissingKeys ==
    {k \in {"override", "keywords", "tlds"} : external[k].tag = "missing"}

\* C6: an override document that lacks the flag, keywords or tlds does not make
\* startup fail, and the effective ruleset is the base ruleset for each missing part.
C6_MissingKeysNotFatal ==
    (pc # "start" /\ MissingKeys # {}) =>
        /\ pc # "crashed"
        /\ "override" \in MissingKeys => suspicious = base
        /\ "keywords" \in MissingKeys => suspicious.keywords = base.keywords
        /\ "tlds" \in MissingKeys => suspicious.tlds = base.tlds

-----------------------------------------------------------------------------
(* Properties of the stream, checked under Spec *)

\* The domains of the certificate updates among the messages ms, in arrival order
\* and in all_domains order, each with its issuer's bonus.
RECURSIVE Occurrences(_)
Occurrences(ms) ==
    IF Len(ms) = 0 THEN <<>>
    ELSE (IF Head(ms).message_type = "certificate_update"
          THEN [i \in 1..Len(Head(ms).all_domains) |->
                  [domain |-> Head(ms).all_domains[i],
                   bonus |-> IF Contains(Head(ms).issuer, s_lets_encrypt) THEN 10 ELSE 0]]
          ELSE <<>>) \o Occurrences(Tail(ms))

\* The final score of an occurrence is at least 75.
Flagged(o) ==
    LET r == score_domain(Lower(o.domain))
    IN  ~r.err /\ r.score + o.bonus >= 75

\* C2: the rows after the header are the domains of the delivered certificate
\* updates whose final score is at least 75, one row per occurrence, in arrival
\* order and in all_domains order; heartbeats and lower scores leave no row.
C2_LogRows ==
    pc = "listening" =>
        /\ Len(log) >= 1 /\ log[1] = Header
        /\ \A i \in 2..Len(log) : log[i].kind = "row"
        /\ [i \in 1..(Len(log) - 1) |-> log[i + 1].domain]
             = Only({[i \in 1..Len(rows) |-> rows[i].domain] :
                     rows \in {SelectSeq(Occurrences(delivered), Flagged)}})

\* Two messages were delivered, two rows were written and at least one of the
\* domains delivered left no row.
C2_Witness ==
    /\ Len(delivered) = 2
    /\ Len(log) = 3
    /\ Len(Occurrences(delivered)) > 2
    /\ log[2].domain # log[3].domain

\* C7: once startup has completed no step changes the ruleset, every value
\* score_domain returned for a domain during the stream is the value it returned
\* for that domain at any other time, and it is the value a call made now returns.
C7_Stateless ==
    /\ [][pc = "listening" => suspicious' = suspicious]_vars
    /\ [](\A p \in scored :
            /\ \A q \in scored : p.domain = q.domain => p.score = q.score
            /\ p.score = score_domain(p.domain).score)

\* The same domain was scored in two different certificates, after and before
\* other domains.
C7_Witness ==
    /\ Len(delivered) = 2
    /\ delivered[1].all_domains = <<s_login_info, s_a_com>>
    /\ delivered[2].all_domains = <<s_a_login_com, s_login_info>>
    /\ Cardinality(scored) = 3

\* A notice or a row was written for the domain d.
Reported(d) ==
    \/ \E i \in 1..Len(console) : console[i].domain = d
    \/ \E i \in 2..Len(log) : log[i].domain = d

\* C10 as stated: a domain that ends with an entry of the whitelist leaves no
\* notice and no row, whoever issued its certificate.
C10_WhitelistedNeverReported ==
    \A i \in 1..Len(delivered) : \A j \in 1..Len(delivered[i].all_domains) :
        WhitelistHits(delivered[i].all_domains[j]) # {}
            => ~Reported(delivered[i].all_domains[j])

\* C10 amended: a domain whose lower-cased form ends with an entry of the
\* whitelist leaves no notice and no row, whoever issued its certificate.
C10_LowerWhitelistedNeverReported ==
    \A i \in 1..Len(delivered) : \A j \in 1..Len(delivered[i].all_domains) :
        WhitelistHits(Lower(delivered[i].all_domains[j])) # {}
            => ~Reported(delivered[i].all_domains[j])

\* A certificate issued by Let's Encrypt was processed in which a whitelisted
\* domain holding a keyword of weight 70 comes before a domain that was logged.
C10_Witness ==
    /\ Len(delivered) >= 1
    /\ delivered[1].all_domains = <<s_pay_mail_com, s_Pay_com>>
    /\ Contains(delivered[1].issuer, s_lets_encrypt)
    /\ WhitelistHits(Lower(s_pay_mail_com)) # {}
    /\ suspicious.keywords.val[s_pay] = 70
    /\ Len(log) = 2 /\ log[2].domain = s_Pay_com
=============================================================================
